---- MODULE Spec2Model ----
(***************************************************************************)
(* Model of the leaderboard service of server.py: the primary data file,   *)
(* the backups directory (latest.json, timestamped snapshots, manifest),   *)
(* the two request handlers (do_GET, do_POST), the recovery scan, the      *)
(* atomic file write and the remote sync with its file watcher.            *)
(*                                                                         *)
(* A JSON document on disk is a record [kind, items]:                      *)
(*   "absent"  the file does not exist                                     *)
(*   "invalid" the file does not parse as JSON                             *)
(*   "list"    a JSON array of record objects (items)                      *)
(*   "wrapped" a JSON object {"items": [...]} (items)                      *)
(*   "object"  a non-empty JSON object without an "items" array            *)
(*   "scalar"  a non-zero JSON number                                      *)
(* A Python value returned by a loader has the same shape, with the extra  *)
(* kind "none" for None.                                                   *)
(***************************************************************************)
EXTENDS Integers, Sequences, FiniteSets, TLC

\* ------------------------------------------------------------- bounds
MaxRequests == 2
MaxTicks == 1
MaxLen == 2
MaxFiles == 3

\* ---------------------------------------------------------- constants
SecondsPerDay == 24 * 60 * 60

\* ------------------------------------------------------------- inputs
\* Raw request fields, before str(...).strip() and float(...).
UserIds == {"", " ", "u1", "u2"}
Names == {"", "Alice", "Bob"}
Scores == {-5, 0, 5, 10}
Avatars == {"", "a.png", "b.png"}
\* The sentinel display name of do_GET's filter (the two-character CJK word
\* for "unknown" in the source).
UnknownName == "unknown"

\* ------------------------------------------------------------ helpers
Doc(k, its) == [kind |-> k, items |-> its]
Absent == Doc("absent", <<>>)
Invalid == Doc("invalid", <<>>)
ListDoc(its) == Doc("list", its)
Wrapped(its) == Doc("wrapped", its)
PyNone == Doc("none", <<>>)

Range(s) == {s[i] : i \in 1..Len(s)}

\* Lexicographic order on tuples of naturals (Python compares strings and
\* tuples position by position; a proper prefix is smaller).
RECURSIVE LexLess(_, _)
LexLess(a, b) ==
  IF b = <<>> THEN FALSE
  ELSE IF a = <<>> THEN TRUE
  ELSE IF Head(a) < Head(b) THEN TRUE
  ELSE IF Head(a) > Head(b) THEN FALSE
  ELSE LexLess(Tail(a), Tail(b))

\* Rank of the English weekday abbreviation in string order:
\* Fri < Mon < Sat < Sun < Thu < Tue < Wed.  Index 0 is Monday.
WeekdayAlpha(wd) ==
  CASE wd = 0 -> 1 [] wd = 1 -> 5 [] wd = 2 -> 6 [] wd = 3 -> 4
    [] wd = 4 -> 0 [] wd = 5 -> 2 [] wd = 6 -> 3

\* BaseHTTPRequestHandler.date_time_string(): "Www, DD Mon YYYY HH:MM:SS GMT".
\* The string is kept as the tuple of what its characters compare by, in
\* order: weekday name, day, time of day (the horizon stays within one month).
\* Second 0 is Thursday 1 January 1970.
date_time_string(t) ==
  << WeekdayAlpha(((t \div SecondsPerDay) + 3) % 7),
     t \div SecondsPerDay,
     t % SecondsPerDay >>

\* utcnow().strftime('%Y%m%d-%H%M%S'): date part, then time-of-day part.
UtcStamp(t) == << t \div SecondsPerDay, t % SecondsPerDay >>

\* str.strip() on the strings of the model.
Strip(s) == IF s = " " THEN "" ELSE s

\* ------------------------------------------------------------ records
Rec(u, n, sc, av, at) ==
  [user_id |-> u, name |-> n, score |-> sc, avatar |-> av, updated_at |-> at]

\* --------------------------------------------------- ranking (do_GET)
\* (the score compared without the minus sign)
MutKeyLess(a, b) ==
  \/ a.score < b.score
  \/ a.score = b.score /\ LexLess(a.updated_at, b.updated_at)

\* The sort key of do_GET and do_POST: (-score, updated_at), ascending.
KeyLess(a, b) ==
  \/ a.score > b.score
  \/ a.score = b.score /\ LexLess(a.updated_at, b.updated_at)

\* sorted() is stable: x, taken from later in the input, goes behind every
\* element that is not strictly greater than it.
RECURSIVE InsertSorted(_, _)
InsertSorted(x, s) ==
  IF s = <<>> THEN <<x>>
  ELSE IF KeyLess(x, Head(s)) THEN <<x>> \o s
  ELSE <<Head(s)>> \o InsertSorted(x, Tail(s))

RECURSIVE Sorted(_)
Sorted(s) ==
  IF s = <<>> THEN <<>>
  ELSE InsertSorted(s[Len(s)], Sorted(SubSeq(s, 1, Len(s) - 1)))

\* (the filter decided by the name alone, whatever the score)
MutIsValid(it) ==
  /\ Strip(it.user_id) # ""
  /\ Strip(it.name) \notin {"", UnknownName}

\* do_GET's filter: a record stays unless its user_id is empty after
\* stripping, or its score is <= 0 and its name is empty or the sentinel.
IsValid(it) ==
  /\ Strip(it.user_id) # ""
  /\ ~(it.score <= 0 /\ Strip(it.name) \in {"", UnknownName})

RECURSIVE FilterValid(_)
FilterValid(s) ==
  IF s = <<>> THEN <<>>
  ELSE IF IsValid(Head(s)) THEN <<Head(s)>> \o FilterValid(Tail(s))
  ELSE FilterValid(Tail(s))

\* enumerate(data_sorted, start=1): item['rank'] = idx.
WithRanks(s) == [i \in 1..Len(s) |-> [rec |-> s[i], rank |-> i]]

RankedView(data) == WithRanks(Sorted(FilterValid(data)))

\* ------------------------------------------------------ backup files
\* A file name of the backups directory other than latest.json and
\* manifest.json: prefix, stamp (a tuple of naturals), extension.
FileName(p, st, e) == [prefix |-> p, stamp |-> st, ext |-> e]
SnapName(ts) == FileName("leaderboard-", ts, ".json")

\* patterns of _find_best_local_snapshot
Patterns == {"backend-live-", "data-live-", "leaderboard-"}

\* Position of a name in sorted(os.listdir(BACKUPS_DIR)): the prefix decides
\* first ('b' < 'd' < 'l' < 'n'), then the stamp's digits, then the
\* extension ('.json' is a proper prefix of '.json.tmp').
PrefixRank(p) ==
  CASE p = "backend-live-" -> 0 [] p = "data-live-" -> 1
    [] p = "leaderboard-" -> 2 [] OTHER -> 3
ExtRank(e) == IF e = ".json" THEN 0 ELSE 1
NameKey(n) == <<PrefixRank(n.prefix)>> \o n.stamp \o <<ExtRank(n.ext)>>

\* sorted(names) as a sequence.
RECURSIVE SortedNames(_)
SortedNames(S) ==
  IF S = {} THEN <<>>
  ELSE LET m == CHOOSE x \in S : \A y \in S \ {x} : LexLess(NameKey(x), NameKey(y))
       IN <<m>> \o SortedNames(S \ {m})

\* _load_json: the parsed document, None when the file is missing or does
\* not parse.
LoadJson(doc) == IF doc.kind \in {"absent", "invalid"} THEN PyNone ELSE doc

\* Python truthiness of a loaded value.
Truthy(v) ==
  CASE v.kind = "none" -> FALSE
    [] v.kind = "list" -> v.items # <<>>
    [] OTHER -> TRUE

\* data.get('items') if isinstance(data, dict)
\*   else (data if isinstance(data, list) else [])
ItemsOf(v) ==
  CASE v.kind = "wrapped" -> ListDoc(v.items)
    [] v.kind = "object" -> PyNone
    [] v.kind = "list" -> ListDoc(v.items)
    [] OTHER -> ListDoc(<<>>)

\* len(items) if isinstance(items, list) else 0
CountOf(items) == IF items.kind = "list" THEN Len(items.items) ELSE 0

\* (the count comparison dropped: the last matching file wins)
RECURSIVE MutScanBest(_, _, _, _)
MutScanBest(names, dir, best, maxCount) ==
  IF names = <<>> THEN best
  ELSE LET name == Head(names)
           data == IF dir[name].kind \in {"absent", "invalid"} THEN PyNone ELSE dir[name]
           items == CASE data.kind \in {"wrapped", "list"} -> ListDoc(data.items)
                      [] data.kind = "object" -> PyNone
                      [] OTHER -> ListDoc(<<>>)
       IN IF name.ext # ".json" \/ name.prefix \notin Patterns \/ data = PyNone
          THEN MutScanBest(Tail(names), dir, best, maxCount)
          ELSE MutScanBest(Tail(names), dir, items, maxCount)

\* (cnt >= max_count: a later file with an equal count replaces the best)
RECURSIVE MutScanBestTie(_, _, _, _)
MutScanBestTie(names, dir, best, maxCount) ==
  IF names = <<>> THEN best
  ELSE LET name == Head(names)
           data == LoadJson(dir[name])
           items == ItemsOf(data)
           cnt == CountOf(items)
       IN IF name.ext # ".json" \/ name.prefix \notin Patterns \/ data = PyNone
          THEN MutScanBestTie(Tail(names), dir, best, maxCount)
          ELSE IF cnt >= maxCount
          THEN MutScanBestTie(Tail(names), dir, items, cnt)
          ELSE MutScanBestTie(Tail(names), dir, best, maxCount)

\* The scan of _find_best_local_snapshot over the sorted names: a file
\* replaces the best one only with a strictly greater count.
RECURSIVE ScanBest(_, _, _, _)
ScanBest(names, dir, best, maxCount) ==
  IF names = <<>> THEN best
  ELSE LET name == Head(names)
           data == LoadJson(dir[name])
           items == ItemsOf(data)
           cnt == CountOf(items)
       IN IF name.ext # ".json" \/ name.prefix \notin Patterns \/ data = PyNone
          THEN ScanBest(Tail(names), dir, best, maxCount)
          ELSE IF cnt > maxCount
          THEN ScanBest(Tail(names), dir, items, cnt)
          ELSE ScanBest(Tail(names), dir, best, maxCount)

\* _find_best_local_snapshot: latest.json when it holds a non-empty list,
\* otherwise the result of the scan (a list value, or None).
FindBestLocalSnapshot(lat, dir) ==
  LET l == LoadJson(lat)
      items == ItemsOf(l)
  IN IF Truthy(l) /\ items.kind = "list" /\ Len(items.items) > 0
     THEN items
     ELSE ScanBest(SortedNames(DOMAIN dir), dir, ListDoc(<<>>), -1)

\* load_data: [] when the primary file is missing or does not parse,
\* otherwise whatever JSON value it holds.
LoadData(prim) == IF prim.kind \in {"absent", "invalid"} THEN ListDoc(<<>>) ELSE prim

\* ------------------------------------------------------------- state
VARIABLES
  pc,        \* "boot" before __main__ has run, then "serving"
  primary,   \* DATA_FILE (leaderboard.json)
  latest,    \* backups/latest.json
  dir,       \* the other files of backups/ except the manifest: name -> document
  manifest,  \* backups/manifest.json: [kind, items], items the entries
  now,       \* the wall clock, in seconds
  remote,    \* the copy of DATA_FILE in the remote repository
  resp,      \* the answer to the last request
  last,      \* the last request as the handler read it (history)
  submitted, \* per user_id, the greatest score of an accepted submit (history)
  clean,     \* no write has failed and nobody else has touched DATA_FILE (history)
  syncs,     \* number of calls of _sync_leaderboard_to_remote
  nreq, nticks,
  recovered, \* the value _find_best_local_snapshot returned last
  aw,        \* one _atomic_write_json call in steps, and a concurrent reader
  h,         \* the position of do_POST between save_data's sync and the answer
  mtime,     \* os.path.getmtime(DATA_FILE), counted in writes of the file
  synced,    \* how the last call of _sync_leaderboard_to_remote ended (history)
  w,         \* the watcher thread: its position, m, _last_mtime, _last_push_mtime,
             \* and how many exceptions its loop has caught (history)
  th         \* the submits on their way through the server, one per connection

vars == <<pc, primary, latest, dir, manifest, now, remote, resp, last,
          submitted, clean, syncs, nreq, nticks, recovered, aw, h,
          mtime, synced, w, th>>

\* The writes of save_data and its sync, each of which may fail; the read of
\* the manifest before its write may fail as well ("manifest_read").
Steps == {"primary", "latest", "snapshot", "manifest", "sync"}

NoResp == [op |-> "none", status |-> 0, ok |-> FALSE, rank |-> 0,
           error |-> "", items |-> <<>>]
NoLast == [op |-> "none", user_id |-> "", name |-> "", score |-> 0,
           avatar |-> "", found |-> FALSE, fails |-> {}]

\* ------------------------------------------------------ atomic write
\* _atomic_write_json, seen from the handler that calls it: the target holds
\* the payload, or on any error keeps what it held (the error is swallowed).
\* (os.replace left out: the payload stays in the temporary file)
MutAtomicWriteJson(old, payload, fail) == old
AtomicWriteJson(old, payload, fail) == IF fail THEN old ELSE payload

\* ------------------------------------------------- _save_backup_snapshot
\* (the name of the temporary file recorded instead of the snapshot's)
MutManifestEntry(ts, items) ==
  [timestamp |-> ts, file |-> FileName("leaderboard-", ts, ".json.tmp"),
   count |-> Len(items)]
ManifestEntry(ts, items) == [timestamp |-> ts, file |-> SnapName(ts), count |-> Len(items)]

\* manifest = json.load(mf) or [] ; on any error (the file does not open,
\* cannot be read or does not parse) manifest = []
LoadManifest(m, readFail) ==
  CASE readFail \/ m.kind \in {"absent", "invalid"} -> ListDoc(<<>>)
    [] OTHER -> m

\* manifest.append(entry) raises on a value that is no list: no write.
SaveManifest(m, ts, items, readFail, fail) ==
  LET cur == LoadManifest(m, readFail)
  IN IF cur.kind # "list" THEN m
     ELSE AtomicWriteJson(m, ListDoc(Append(cur.items, ManifestEntry(ts, items))), fail)

SaveLatest(lat, items, fail) == AtomicWriteJson(lat, Wrapped(items), fail)

SaveSnapshot(d, ts, items, fail) ==
  LET name == SnapName(ts)
      old == IF name \in DOMAIN d THEN d[name] ELSE Absent
      new == AtomicWriteJson(old, Wrapped(items), fail)
  IN IF new = Absent THEN d
     ELSE [n \in DOMAIN d \cup {name} |-> IF n = name THEN new ELSE d[n]]

\* ------------------------------------------------------- remote sync
\* _sync_leaderboard_to_remote: uploads the bytes of DATA_FILE; a missing
\* file, a disabled sync, a network or git failure leave the remote as it is.
SyncRemote(rem, prim, fail) ==
  IF fail \/ prim.kind = "absent" THEN rem ELSE prim

\* The value the call returns: True after an upload or a push, False otherwise.
SyncOutcome(prim, fail) ==
  IF fail \/ prim.kind = "absent" THEN "failed" ELSE "ok"

\* os.replace gives the target the modification time of the file just
\* written: a time no earlier write of the target had.
WriteTime(old, fail) == IF fail THEN old ELSE old + 1

\* ----------------------------------------------------------- save_data
\* Whether a failing step raises out of the function that runs it.
\* _atomic_write_json catches every exception of its body.
AtomicWriteRaises(fail) == FALSE
\* save_data wraps _save_backup_snapshot and the sync in try/except: pass.
BackupRaises(fails) == FALSE
\* (the sync called outside a try block)
MutSyncRaises(fail) == fail
SyncRaises(fail) == FALSE
SaveDataRaises(fails) ==
  \/ AtomicWriteRaises("primary" \in fails)
  \/ BackupRaises(fails \cap {"latest", "snapshot", "manifest"})
  \/ SyncRaises("sync" \in fails)

\* save_data(data): primary file, then the backups, then the sync; every
\* failure is swallowed.
SaveFiles(items, fails) ==
  /\ primary' = AtomicWriteJson(primary, ListDoc(items), "primary" \in fails)
  /\ latest' = SaveLatest(latest, items, "latest" \in fails)
  /\ dir' = SaveSnapshot(dir, UtcStamp(now), items, "snapshot" \in fails)
  /\ manifest' = SaveManifest(manifest, UtcStamp(now), items,
                             "manifest_read" \in fails, "manifest" \in fails)
  /\ clean' = (clean /\ fails \cap {"primary", "latest", "snapshot", "manifest"} = {})
  /\ mtime' = WriteTime(mtime, "primary" \in fails)

SaveData(items, fails) ==
  /\ SaveFiles(items, fails)
  /\ remote' = SyncRemote(remote, primary', "sync" \in fails)
  /\ syncs' = syncs + 1
  /\ synced' = SyncOutcome(primary', "sync" \in fails)

\* ------------------------------------------------------------ do_POST
\* Index of the first record of data with this user_id, 0 when there is none.
FindUser(data, uid) ==
  IF \E i \in 1..Len(data) : data[i].user_id = uid
  THEN CHOOSE i \in 1..Len(data) :
         /\ data[i].user_id = uid
         /\ \A j \in 1..(i - 1) : data[j].user_id # uid
  ELSE 0

\* (item['score'] = score without the comparison)
MutUpdateItemScore(item, name, score, avatar, at) ==
  [item EXCEPT !.score = score,
               !.name = IF name # "" THEN name ELSE item.name,
               !.avatar = IF avatar # "" THEN avatar ELSE item.avatar,
               !.updated_at = at]

\* (item['name'] = name and item['avatar'] = avatar without the fallback)
MutUpdateItemFields(item, name, score, avatar, at) ==
  [item EXCEPT !.score = IF score > item.score THEN score ELSE item.score,
               !.name = name,
               !.avatar = avatar,
               !.updated_at = at]

\* The update of an existing record: the score only goes up, an empty name
\* or avatar keeps the stored one, updated_at is always refreshed.
UpdateItem(item, name, score, avatar, at) ==
  [item EXCEPT !.score = IF score > item.score THEN score ELSE item.score,
               !.name = IF name # "" THEN name ELSE item.name,
               !.avatar = IF avatar # "" THEN avatar ELSE item.avatar,
               !.updated_at = at]

\* (the search loop skipped: every submit appends)
MutUpsertAppend(data, uid, name, score, avatar, at) ==
  Append(data, Rec(uid, name, score, avatar, at))

Upsert(data, uid, name, score, avatar, at) ==
  LET i == FindUser(data, uid)
  IN IF i > 0
     THEN [data EXCEPT ![i] = UpdateItem(data[i], name, score, avatar, at)]
     ELSE Append(data, Rec(uid, name, score, avatar, at))

\* next(i+1 for i, it in enumerate(data_sorted) if it.user_id == user_id)
RankOf(data, uid) == FindUser(Sorted(data), uid)

\* (the score test dropped from the validation)
MutRejected(uid, score) == uid = ""

\* payload validation of do_POST
Rejected(uid, score) == uid = "" \/ score <= 0

DoPost(rawUid, rawName, rawScore, rawAvatar, fails) ==
  LET uid == Strip(rawUid)
      name == Strip(rawName)
      score == rawScore
      avatar == Strip(rawAvatar)
      data == LoadData(primary)
      req == [op |-> "post", user_id |-> uid, name |-> name, score |-> score,
              avatar |-> avatar, found |-> FALSE, fails |-> fails]
  IN /\ pc = "serving"
     /\ nreq < MaxRequests
     /\ nreq' = nreq + 1
     /\ UNCHANGED <<pc, now, nticks, recovered, aw, h, w, th>>
     /\ IF Rejected(uid, score)
        THEN /\ resp' = [NoResp EXCEPT !.op = "post", !.status = 400,
                                       !.error = "invalid payload"]
             /\ last' = [req EXCEPT !.name = "", !.avatar = "", !.fails = {}]
             /\ UNCHANGED <<primary, latest, dir, manifest, remote, syncs,
                            submitted, clean, mtime, synced>>
        ELSE IF data.kind # "list"
        THEN \* iterating a value that is no list of objects raises: the
             \* connection is closed without an answer
             /\ resp' = [NoResp EXCEPT !.op = "post", !.error = "exception"]
             /\ last' = [req EXCEPT !.name = "", !.avatar = "", !.fails = {}]
             /\ UNCHANGED <<primary, latest, dir, manifest, remote, syncs,
                            submitted, clean, mtime, synced>>
        ELSE LET new == Upsert(data.items, uid, name, score, avatar,
                               date_time_string(now))
             IN /\ SaveData(new, fails)
                /\ resp' = IF SaveDataRaises(fails)
                           THEN [NoResp EXCEPT !.op = "post", !.error = "exception"]
                           ELSE [NoResp EXCEPT !.op = "post", !.status = 200,
                                               !.ok = TRUE, !.rank = RankOf(new, uid)]
                /\ last' = [req EXCEPT !.found = (FindUser(data.items, uid) > 0)]
                /\ submitted' = IF uid \in DOMAIN submitted
                                THEN [submitted EXCEPT ![uid] =
                                        IF score > @ THEN score ELSE @]
                                ELSE submitted

\* ------------------------------------------------------------- do_GET
\* The collection do_GET ranks: the primary file's list, or the best local
\* snapshot when load_data returned something that is no list.
GetData(prim, lat, d) ==
  LET data == LoadData(prim)
      back == IF data.kind # "list" THEN FindBestLocalSnapshot(lat, d) ELSE data
  IN IF back.kind # "list" THEN <<>> ELSE back.items

DoGet ==
  /\ pc = "serving"
  /\ resp' = [NoResp EXCEPT !.op = "get", !.status = 200,
                            !.items = RankedView(GetData(primary, latest, dir))]
  /\ last' = [NoLast EXCEPT !.op = "get"]
  /\ UNCHANGED <<pc, primary, latest, dir, manifest, now, remote, submitted,
                 clean, syncs, nreq, nticks, recovered, aw, h,
                 mtime, synced, w, th>>

\* ----------------------------------------------------------- __main__
\* need_restore: DATA_FILE is missing, or load_data() is no list or is empty.
NeedRestore(prim) ==
  \/ prim.kind = "absent"
  \/ LoadData(prim).kind # "list"
  \/ LoadData(prim).items = <<>>

\* What __main__ saves when a restore is needed: the best local snapshot
\* when it is a non-empty list, else the empty list.
RestoredItems(lat, d) ==
  LET restored == FindBestLocalSnapshot(lat, d)
  IN IF restored.kind = "list" /\ Len(restored.items) > 0
     THEN restored.items ELSE <<>>

Main(fails) ==
  /\ pc = "boot"
  /\ pc' = "serving"
  /\ IF NeedRestore(primary)
     THEN SaveData(RestoredItems(latest, dir), fails)
     ELSE UNCHANGED <<primary, latest, dir, manifest, remote, syncs, clean,
                      mtime, synced>>
  /\ UNCHANGED <<now, resp, last, submitted, nreq, nticks, recovered, aw, h, w, th>>

\* ---------------------------------------------------------- environment
\* Time passes: a second, or a day.
Tick(d) ==
  /\ nticks < MaxTicks
  /\ nticks' = nticks + 1
  /\ now' = now + d
  /\ UNCHANGED <<pc, primary, latest, dir, manifest, remote, resp, last,
                 submitted, clean, syncs, nreq, recovered, aw, h,
                 mtime, synced, w, th>>

\* Somebody other than the server deletes DATA_FILE, damages it, or puts a
\* JSON value there that is no array (keeping the file's modification time).
AlterPrimary(doc) ==
  /\ pc = "serving"
  /\ primary' = doc
  /\ primary' # primary
  /\ clean' = FALSE
  /\ UNCHANGED <<pc, latest, dir, manifest, now, remote, resp, last,
                 submitted, syncs, nreq, nticks, recovered, aw, h,
                 mtime, synced, w, th>>

Alterations(prim) ==
  {Absent, Invalid, Doc("object", <<>>)}

\* ------------------------------------------------------ initial disks
SubmitUsers == {Strip(u) : u \in UserIds} \ {""}

Seed == Rec("u0", "Zoe", 7, "", date_time_string(0))
Ghost == Rec("u9", UnknownName, 0, "", date_time_string(0))

\* The data directory as a starting process may find it: nothing at all; a
\* primary file left by an earlier run; backups without a primary file.
BootDisks ==
  { [primary |-> Absent, latest |-> Absent, dir |-> <<>>, manifest |-> Absent],
    [primary |-> ListDoc(<<Ghost, Seed>>), latest |-> Absent, dir |-> <<>>,
     manifest |-> Absent],
    [primary |-> Absent, latest |-> Wrapped(<<Seed>>),
     dir |-> (FileName("backend-live-", <<1>>, ".json") :> ListDoc(<<Seed, Ghost>>)),
     manifest |-> Invalid] }

Unread == Doc("unread", <<>>)
IdleWrite == [pc |-> "idle", files |-> [f \in {"target", "tmp"} |-> Absent],
              old |-> Absent, payload |-> Absent, seen |-> Unread]
IdleHandler == [pc |-> "idle", user_id |-> "", rank |-> 0]
\* _last_mtime = 0.0 and _last_push_mtime = 0.0 (lines 246-247)
IdleWatcher == [pc |-> "poll", m |-> 0, last_mtime |-> 0, last_push_mtime |-> 0,
                errs |-> 0]
NoThread == [pc |-> "none", user_id |-> "", score |-> 0, data |-> <<>>, rank |-> 0]

\* What every specification starts with besides the files.
InitRest ==
  /\ now = 0
  /\ remote = Absent
  /\ resp = NoResp
  /\ last = NoLast
  /\ submitted = [u \in SubmitUsers |-> 0]
  /\ clean = TRUE
  /\ syncs = 0
  /\ nreq = 0
  /\ nticks = 0
  /\ recovered = PyNone
  /\ aw = IdleWrite
  /\ h = IdleHandler
  /\ mtime = 1
  /\ synced = "none"
  /\ w = IdleWatcher
  /\ th = [r \in 1..MaxRequests |-> NoThread]

Init ==
  /\ pc = "boot"
  /\ \E b \in BootDisks :
       /\ primary = b.primary
       /\ latest = b.latest
       /\ dir = b.dir
       /\ manifest = b.manifest
  /\ InitRest

PostAny(U, N, S, A, F) ==
  \E u \in U, n \in N, s \in S, a \in A, fails \in F : DoPost(u, n, s, a, fails)

\* Two users; every write and the sync succeed.
Next ==
  \/ Main({})
  \/ PostAny(UserIds, {"Alice"}, Scores, {""}, {{}})
  \/ DoGet
  \/ \E d \in {1, SecondsPerDay} : Tick(d)
  \/ \E doc \in Alterations(primary) : AlterPrimary(doc)

Spec == Init /\ [][Next]_vars

\* One user; any one of the five steps of save_data fails, or all of them do.
FailSets == {{}} \cup {{st} : st \in Steps} \cup {Steps}

NextFaults ==
  \/ \E fails \in FailSets : Main(fails)
  \/ PostAny({"", "u1"}, {"Alice"}, Scores, {""}, FailSets)
  \/ DoGet
  \/ \E d \in {1, SecondsPerDay} : Tick(d)

SpecFaults == Init /\ [][NextFaults]_vars

\* One user, every name and avatar; every write and the sync succeed.
NextFields ==
  \/ Main({})
  \/ PostAny({"", "u1"}, Names, Scores, Avatars, {{}})
  \/ DoGet
  \/ \E d \in {1, SecondsPerDay} : Tick(d)

SpecFields == Init /\ [][NextFields]_vars

\* ------------------------------------------------ ranking of any list
\* The records a primary file may hold: with and without user_id, real and
\* placeholder names, scores of both signs of the filter, two update times
\* (Thursday 1 January and Friday 2 January 1970).
RankRecords ==
  { Rec(u, n, sc, "", date_time_string(t)) :
      u \in {"", " ", "u1", "u2"}, n \in {"", UnknownName, "Alice"},
      sc \in {0, 5, 10}, t \in {0, SecondsPerDay} }

SeqsUpTo(S, k) == UNION { [1..n -> S] : n \in 0..k }

InitRank ==
  /\ pc = "serving"
  /\ primary \in { ListDoc(its) : its \in SeqsUpTo(RankRecords, MaxLen) }
  /\ latest = Absent
  /\ dir = <<>>
  /\ manifest = Absent
  /\ InitRest

NextRank == DoGet

SpecRank == InitRank /\ [][NextRank]_vars

\* ------------------------------------------ recovery from any directory
UserPool == <<"u1", "u2", "u3", "u4", "u5", "u6", "u7">>
\* A collection of n records, told from others of the same size by its tag.
Coll(n, tag) == [i \in 1..n |-> Rec(UserPool[i], tag, 1, "", date_time_string(0))]

BackupNames ==
  { FileName("backend-live-", <<1>>, ".json"),
    FileName("data-live-", <<1>>, ".json"),
    FileName("leaderboard-", <<0, 0>>, ".json"),
    FileName("leaderboard-", <<0, 1>>, ".json"),
    FileName("leaderboard-", <<0, 0>>, ".json.tmp"),
    FileName("notes-", <<1>>, ".json") }

BackupContents ==
  { Invalid, Doc("object", <<>>), Wrapped(<<>>), Wrapped(Coll(3, "a")),
    ListDoc(Coll(3, "b")), Wrapped(Coll(5, "c")), Wrapped(Coll(7, "d")) }

LatestContents ==
  { Absent, Invalid, Doc("object", <<>>), Wrapped(<<>>), Wrapped(Coll(1, "e")) }

InitRecover ==
  /\ pc = "serving"
  /\ primary = Absent
  /\ latest \in LatestContents
  /\ \E D \in SUBSET BackupNames :
       /\ Cardinality(D) <= MaxFiles
       /\ dir \in [D -> BackupContents]
  /\ manifest = Absent
  /\ InitRest

\* A call of _find_best_local_snapshot.
Recover ==
  /\ last.op = "none"
  /\ recovered' = FindBestLocalSnapshot(latest, dir)
  /\ last' = [NoLast EXCEPT !.op = "recover"]
  /\ UNCHANGED <<pc, primary, latest, dir, manifest, now, remote, resp,
                 submitted, clean, syncs, nreq, nticks, aw, h,
                 mtime, synced, w, th>>

NextRecover == Recover

SpecRecover == InitRecover /\ [][NextRecover]_vars

\* ------------------------------------- _atomic_write_json step by step
\* One file written again and again through _atomic_write_json, and another
\* thread (the watcher's sync, which reads DATA_FILE) reading it at any time.
\* A reader holds the file it opened: a read returns one whole content.
Partial == Doc("partial", <<>>)
WriteContents ==
  { ListDoc(<<>>), ListDoc(<<Seed>>), ListDoc(<<Seed, Ghost>>), Wrapped(<<Seed>>) }

\* (the payload written straight to the target path)
MutStagingFile == "target"
\* tmp = path + '.tmp': the file the payload is written to.
StagingFile == "tmp"

OnlyWrite ==
  UNCHANGED <<pc, primary, latest, dir, manifest, now, remote, resp, last,
              submitted, clean, syncs, nticks, recovered, h,
              mtime, synced, w, th>>

AwCall(payload) ==
  /\ aw.pc = "idle"
  /\ nreq < MaxRequests
  /\ nreq' = nreq + 1
  /\ aw' = [aw EXCEPT !.pc = "open", !.old = aw.files["target"],
                      !.payload = payload, !.seen = Unread]
  /\ OnlyWrite

\* open(tmp, 'w'): the file exists and is empty.
AwOpen ==
  /\ aw.pc = "open"
  /\ aw' = [aw EXCEPT !.pc = "dump", !.files[StagingFile] = Partial]
  /\ UNCHANGED nreq /\ OnlyWrite

\* json.dump(payload, f) and the end of the with block.
AwDump ==
  /\ aw.pc = "dump"
  /\ aw' = [aw EXCEPT !.pc = "replace", !.files[StagingFile] = aw.payload]
  /\ UNCHANGED nreq /\ OnlyWrite

\* except Exception: remove tmp when it exists.
AwCleanup(files) == [files EXCEPT !["tmp"] = Absent]

\* os.replace(tmp, path); it raises when tmp does not exist.
AwReplace ==
  /\ aw.pc = "replace"
  /\ aw' = IF aw.files["tmp"] = Absent
           THEN [aw EXCEPT !.pc = "failed", !.files = AwCleanup(aw.files)]
           ELSE [aw EXCEPT !.pc = "done",
                           !.files = [target |-> aw.files["tmp"], tmp |-> Absent]]
  /\ UNCHANGED nreq /\ OnlyWrite

\* The step about to run raises (open, a write of json.dump, os.replace).
AwFail ==
  /\ aw.pc \in {"open", "dump", "replace"}
  /\ aw' = [aw EXCEPT !.pc = "failed", !.files = AwCleanup(aw.files)]
  /\ UNCHANGED nreq /\ OnlyWrite

\* The other thread opens and reads the target.
AwRead ==
  /\ aw.pc # "idle"
  /\ aw' = [aw EXCEPT !.seen = aw.files["target"]]
  /\ UNCHANGED nreq /\ OnlyWrite

AwReturn ==
  /\ aw.pc \in {"done", "failed"}
  /\ aw' = [aw EXCEPT !.pc = "idle"]
  /\ UNCHANGED nreq /\ OnlyWrite

InitAtomic ==
  /\ pc = "serving"
  /\ primary = Absent /\ latest = Absent /\ dir = <<>> /\ manifest = Absent
  /\ now = 0 /\ remote = Absent /\ resp = NoResp /\ last = NoLast
  /\ submitted = [u \in SubmitUsers |-> 0]
  /\ clean = TRUE /\ syncs = 0 /\ nreq = 0 /\ nticks = 0
  /\ recovered = PyNone /\ h = IdleHandler
  /\ mtime = 1 /\ synced = "none" /\ w = IdleWatcher
  /\ th = [r \in 1..MaxRequests |-> NoThread]
  /\ \E t \in {Absent} \cup WriteContents :
       aw = [IdleWrite EXCEPT !.files["target"] = t]

NextAtomic ==
  \/ \E payload \in WriteContents : AwCall(payload)
  \/ AwOpen
  \/ AwDump
  \/ AwReplace
  \/ AwFail
  \/ AwRead
  \/ AwReturn

SpecAtomic == InitAtomic /\ [][NextAtomic]_vars

\* ------------------------------------- do_POST around the remote sync
\* do_POST up to the call of _sync_leaderboard_to_remote inside save_data:
\* validation, load, upsert, primary file and backups written.
PostToSync(rawUid, rawScore) ==
  LET uid == Strip(rawUid)
      data == LoadData(primary)
      new == Upsert(data.items, uid, "Alice", rawScore, "", date_time_string(now))
  IN /\ pc = "serving" /\ h.pc = "idle"
     /\ nreq < MaxRequests
     /\ ~Rejected(uid, rawScore) /\ data.kind = "list"
     /\ nreq' = nreq + 1
     /\ SaveFiles(new, {})
     /\ h' = [pc |-> "sync", user_id |-> uid, rank |-> RankOf(new, uid)]
     /\ last' = [op |-> "post", user_id |-> uid, name |-> "Alice", score |-> rawScore,
                 avatar |-> "", found |-> (FindUser(data.items, uid) > 0), fails |-> {}]
     /\ submitted' = [submitted EXCEPT ![uid] = IF rawScore > @ THEN rawScore ELSE @]
     /\ UNCHANGED <<pc, now, remote, resp, syncs, synced, nticks, recovered,
                    aw, w, th>>

\* _sync_leaderboard_to_remote returns (uploaded, or failed after its
\* timeouts), and save_data returns with it.
FinishSync(fail) ==
  /\ h.pc = "sync"
  /\ remote' = SyncRemote(remote, primary, fail)
  /\ syncs' = syncs + 1
  /\ synced' = SyncOutcome(primary, fail)
  /\ h' = [h EXCEPT !.pc = "reply"]
  /\ last' = [last EXCEPT !.fails = IF fail THEN {"sync"} ELSE {}]
  /\ UNCHANGED <<pc, primary, latest, dir, manifest, now, resp, submitted,
                 clean, nreq, nticks, recovered, aw, mtime, w, th>>

\* The rest of do_POST: the rank is computed and the answer written.
SendResponse ==
  /\ h.pc = "reply"
  /\ resp' = [NoResp EXCEPT !.op = "post", !.status = 200, !.ok = TRUE,
                            !.rank = h.rank]
  /\ h' = IdleHandler
  /\ UNCHANGED <<pc, primary, latest, dir, manifest, now, remote, last,
                 submitted, clean, syncs, nreq, nticks, recovered, aw, mtime,
                 synced, w, th>>

NextSync ==
  \/ Main({})
  \/ \E u \in UserIds, s \in Scores : PostToSync(u, s)
  \/ \E fail \in BOOLEAN : FinishSync(fail)
  \/ SendResponse
  \/ \E d \in {1, SecondsPerDay} : Tick(d)

SpecSync == Init /\ [][NextSync]_vars

\* ------------------------------------- a filtered-out record resubmitted
\* The user of the placeholder record (u9, score 0, sentinel name) of the
\* second boot disk submits, with and without a name; every write succeeds.
NextGhost ==
  \/ Main({})
  \/ PostAny({"u9", "u1"}, {"", "Alice"}, {0, 5}, {""}, {{}})
  \/ DoGet
  \/ \E d \in {1, SecondsPerDay} : Tick(d)

SpecGhost == Init /\ [][NextGhost]_vars

\* ------------------------------------------- the manifest over many saves
\* One user; the manifest's read or its write fails in some saves.
ManifestFails == {{}, {"manifest_read"}, {"manifest"}}

NextManifest ==
  \/ \E fails \in ManifestFails : Main(fails)
  \/ PostAny({"u1"}, {"Alice"}, {5, 10}, {""}, ManifestFails)
  \/ \E d \in {1, SecondsPerDay} : Tick(d)

SpecManifest == Init /\ [][NextManifest]_vars

\* --------------------------------- the server loop and the watcher thread
\* (ThreadingHTTPServer: every connection gets a thread of its own)
MutServerBusy(t) == FALSE

\* HTTPServer.serve_forever handles a request to its end, in the thread that
\* accepted it, before it accepts the next connection.
ServerBusy(t) == \E r \in DOMAIN t : t[r].pc \in {"loaded", "saved"}

OnlyThreads ==
  UNCHANGED <<pc, now, nticks, recovered, aw, h, w>>

\* A client connects and sends a submit; connections queue in arrival order.
Send(r, rawUid, rawScore) ==
  /\ pc = "serving"
  /\ nreq < MaxRequests /\ r = nreq + 1
  /\ th[r].pc = "none"
  /\ nreq' = nreq + 1
  /\ th' = [th EXCEPT ![r] = [NoThread EXCEPT !.pc = "queued",
                                              !.user_id = Strip(rawUid),
                                              !.score = rawScore]]
  /\ UNCHANGED <<primary, latest, dir, manifest, remote, resp, last, submitted,
                 clean, syncs, mtime, synced>>
  /\ OnlyThreads

\* do_POST from the start to data = load_data().
Accept(r) ==
  LET uid == th[r].user_id
      data == LoadData(primary)
  IN /\ th[r].pc = "queued"
     /\ \A q \in 1..(r - 1) : th[q].pc # "queued"
     /\ ~ServerBusy(th)
     /\ IF Rejected(uid, th[r].score)
        THEN /\ th' = [th EXCEPT ![r].pc = "done"]
             /\ resp' = [NoResp EXCEPT !.op = "post", !.status = 400,
                                       !.error = "invalid payload"]
        ELSE IF data.kind # "list"
        THEN /\ th' = [th EXCEPT ![r].pc = "done"]
             /\ resp' = [NoResp EXCEPT !.op = "post", !.error = "exception"]
        ELSE /\ th' = [th EXCEPT ![r].pc = "loaded", ![r].data = data.items]
             /\ UNCHANGED resp
     /\ UNCHANGED <<primary, latest, dir, manifest, remote, last, submitted,
                    clean, syncs, nreq, mtime, synced>>
     /\ OnlyThreads

\* do_POST from the search loop to the backups written by save_data.
Store(r) ==
  LET uid == th[r].user_id
      score == th[r].score
      new == Upsert(th[r].data, uid, "Alice", score, "", date_time_string(now))
  IN /\ th[r].pc = "loaded"
     /\ SaveFiles(new, {})
     /\ th' = [th EXCEPT ![r].pc = "saved", ![r].rank = RankOf(new, uid)]
     /\ last' = [op |-> "post", user_id |-> uid, name |-> "Alice", score |-> score,
                 avatar |-> "", found |-> (FindUser(th[r].data, uid) > 0),
                 fails |-> {}]
     /\ submitted' = [submitted EXCEPT ![uid] = IF score > @ THEN score ELSE @]
     /\ UNCHANGED <<remote, resp, syncs, nreq, synced>>
     /\ OnlyThreads

\* The sync at the end of save_data, then the answer.
Finish(r, fail) ==
  /\ th[r].pc = "saved"
  /\ remote' = SyncRemote(remote, primary, fail)
  /\ syncs' = syncs + 1
  /\ synced' = SyncOutcome(primary, fail)
  /\ resp' = IF SyncRaises(fail)
             THEN [NoResp EXCEPT !.op = "post", !.error = "exception"]
             ELSE [NoResp EXCEPT !.op = "post", !.status = 200, !.ok = TRUE,
                                 !.rank = th[r].rank]
  /\ th' = [th EXCEPT ![r].pc = "done"]
  /\ last' = [last EXCEPT !.fails = IF fail THEN {"sync"} ELSE {}]
  /\ UNCHANGED <<primary, latest, dir, manifest, submitted, clean, nreq, mtime>>
  /\ OnlyThreads

\* (or in place of and)
MutSyncDue(m, lastMtime, lastPushMtime) == m # lastPushMtime \/ m # lastMtime

\* if m != _last_push_mtime and m != _last_mtime
SyncDue(m, lastMtime, lastPushMtime) == m # lastPushMtime /\ m # lastMtime

\* except Exception: time.sleep(3.0), inside while True: the next pass.
AfterError == "poll"

OnlyWatcher ==
  UNCHANGED <<pc, primary, latest, dir, manifest, now, resp, last, submitted,
              clean, nreq, nticks, recovered, aw, h, mtime, th>>

\* One pass of the watcher's loop up to a sleep: the file's modification time
\* is read when the file exists, _last_mtime takes it when it is still 0.0,
\* and the sync is due when the time differs from both tracked values.
\* A pass on which os.path.getmtime raises (the file went away after the
\* exists test) ends in the except branch without a change, as a pass that
\* finds no file does.
WatchPoll ==
  LET m == mtime
      lm == IF w.last_mtime = 0 THEN m ELSE w.last_mtime
  IN /\ pc = "serving" /\ w.pc = "poll"
     /\ w' = IF primary.kind = "absent" THEN w
             ELSE IF SyncDue(m, lm, w.last_push_mtime)
             THEN [w EXCEPT !.pc = "sync", !.m = m, !.last_mtime = lm]
             ELSE [w EXCEPT !.last_mtime = lm]
     /\ UNCHANGED <<remote, syncs, synced>>
     /\ OnlyWatcher

\* After the debounce sleep: the sync, then both tracked values take m.  A
\* sync that raises (the upload opens a file that is gone) leaves them as
\* they are: except Exception, sleep, next pass.
WatchSync(fail, raised) ==
  /\ w.pc = "sync"
  /\ raised => primary.kind = "absent"
  /\ remote' = SyncRemote(remote, primary, fail)
  /\ syncs' = syncs + 1
  /\ synced' = SyncOutcome(primary, fail)
  /\ w' = IF raised THEN [w EXCEPT !.pc = AfterError, !.errs = w.errs + 1]
          ELSE [w EXCEPT !.pc = "poll", !.last_push_mtime = w.m,
                         !.last_mtime = w.m]
  /\ OnlyWatcher

\* Two users; the startup restore, the submits' syncs and the watcher's
\* syncs succeed or fail.
NextServe ==
  \/ \E fails \in {{}, {"sync"}} : Main(fails)
  \/ \E r \in 1..MaxRequests, u \in {"", "u1", "u2"}, sc \in {5, 10} : Send(r, u, sc)
  \/ \E r \in 1..MaxRequests : Accept(r)
  \/ \E r \in 1..MaxRequests : Store(r)
  \/ \E r \in 1..MaxRequests, fail \in BOOLEAN : Finish(r, fail)
  \/ WatchPoll
  \/ \E fail, raised \in BOOLEAN : WatchSync(fail, raised)

SpecServe == Init /\ [][NextServe]_vars

\* The watcher's loop never ends and sleeps at most three seconds a pass; the
\* server thread runs every handler it has started, and accepts every
\* queued connection.  Clients are free to send nothing more.
FairServe ==
  /\ WF_vars(WatchPoll)
  /\ WF_vars(\E fail, raised \in BOOLEAN : WatchSync(fail, raised))
  /\ WF_vars(\E r \in 1..MaxRequests : Accept(r))
  /\ WF_vars(\E r \in 1..MaxRequests : Store(r))
  /\ WF_vars(\E r \in 1..MaxRequests, fail \in BOOLEAN : Finish(r, fail))

SpecServeFair == SpecServe /\ FairServe

\* One user; the primary file is written by the restore and by submits, and
\* deleted from outside at any time, also between the watcher's test and its
\* sync.  The watcher's loop never ends.
NextWatch ==
  \/ Main({})
  \/ PostAny({"u1"}, {"Alice"}, {5, 10}, {""}, {{}, {"sync"}})
  \/ WatchPoll
  \/ \E fail, raised \in BOOLEAN : WatchSync(fail, raised)
  \/ AlterPrimary(Absent)

FairWatch ==
  /\ WF_vars(WatchPoll)
  /\ WF_vars(\E fail, raised \in BOOLEAN : WatchSync(fail, raised))

SpecWatch == Init /\ [][NextWatch]_vars /\ FairWatch

\* Two users submitting while time passes; every write and sync succeeds.
NextTimed ==
  \/ Main({})
  \/ \E r \in 1..MaxRequests, u \in {"u1", "u2"}, sc \in {5, 10} : Send(r, u, sc)
  \/ \E r \in 1..MaxRequests : Accept(r)
  \/ \E r \in 1..MaxRequests : Store(r)
  \/ \E r \in 1..MaxRequests : Finish(r, FALSE)
  \/ \E d \in {1, SecondsPerDay} : Tick(d)

SpecTimed == Init /\ [][NextTimed]_vars

\* =============================================================== claims
\* The record of a user in a collection, as a set (empty when absent).
RecordsOf(items, uid) == {items[i] : i \in {j \in 1..Len(items) : items[j].user_id = uid}}
StoredScore(uid) ==
  IF \E r \in RecordsOf(primary.items, uid) : TRUE
  THEN (CHOOSE r \in RecordsOf(primary.items, uid) : TRUE).score
  ELSE 0

\* The step is a submit the handler accepted / refused.
AcceptedNow == last.op = "post" /\ last.user_id # "" /\ last.score > 0
PostStep == nreq' = nreq + 1
RejectedStep == PostStep /\ (last'.user_id = "" \/ last'.score <= 0)
AcceptedStep == PostStep /\ last'.user_id # "" /\ last'.score > 0

\* C1: as long as no write has failed and nobody else has touched the
\* primary file, the score stored for each user_id is the greatest score
\* submitted for it so far (0, no record, when none was): a lower
\* resubmission never lowers it.
C1_StoredScoreIsMax ==
  (pc = "serving" /\ clean) =>
    /\ primary.kind = "list"
    /\ \A u \in SubmitUsers :
         /\ StoredScore(u) = submitted[u]
         /\ (submitted[u] = 0) = (RecordsOf(primary.items, u) = {})

\* A lower resubmission has just been accepted for a user whose best is 10.
C1_Witness ==
  /\ clean /\ AcceptedNow /\ last.found
  /\ last.user_id = "u1" /\ last.score = 5
  /\ submitted["u1"] = 10 /\ StoredScore("u1") = 10

\* C3: a submit with an empty user_id or a score <= 0 answers 400 with an
\* error and no rank, and leaves the primary file, latest.json, the
\* snapshots, the manifest and the remote copy as they were; no sync runs.
C3_RejectedChangesNothing ==
  [][RejectedStep =>
       /\ resp'.status = 400 /\ ~resp'.ok /\ resp'.rank = 0 /\ resp'.error # ""
       /\ UNCHANGED <<primary, latest, dir, manifest, remote, syncs, submitted>>]_vars

\* A submit with score 0 has been refused while records were stored.
C3_Witness ==
  /\ last.op = "post" /\ last.user_id = "u1" /\ last.score = 0
  /\ resp.status = 400
  /\ primary.kind = "list" /\ Len(primary.items) > 0

\* C5: an accepted submit for a user_id that has a record leaves the
\* stored name (avatar) as it was when the submitted name (avatar) is
\* empty, and stores the submitted one otherwise.
C5_EmptyFieldsPreserved ==
  [][(AcceptedStep /\ last'.found) =>
       \A old \in RecordsOf(primary.items, last'.user_id) :
         \A new \in RecordsOf(primary'.items, last'.user_id) :
           /\ new.name = IF last'.name = "" THEN old.name ELSE last'.name
           /\ new.avatar = IF last'.avatar = "" THEN old.avatar ELSE last'.avatar]_vars

\* (u1, Alice, 10) then (u1, empty name, 5): name Alice, score 10.
C5_Witness ==
  /\ AcceptedNow /\ last.found /\ last.user_id = "u1"
  /\ last.name = "" /\ last.avatar = "" /\ last.score = 5
  /\ \E r \in RecordsOf(primary.items, "u1") :
       r.name = "Alice" /\ r.avatar = "a.png" /\ r.score = 10

\* C9: an accepted submit answers 200, ok, with a rank and no error,
\* whichever of the five steps of save_data failed.
C9_FailuresNotSurfaced ==
  (pc = "serving" /\ AcceptedNow) =>
    /\ resp.status = 200 /\ resp.ok /\ resp.error = ""
    /\ resp.rank >= 1

\* Every step of save_data failed and the submit was answered ok, rank 1.
C9_Witness ==
  /\ AcceptedNow /\ last.fails = Steps
  /\ resp.ok /\ resp.rank = 1

\* C10: the primary file, latest.json and every snapshot hold at most one
\* record per user_id.
Unique(items) ==
  \A i, j \in 1..Len(items) : items[i].user_id = items[j].user_id => i = j
C10_OneRecordPerUser ==
  /\ Unique(primary.items)
  /\ Unique(latest.items)
  /\ \A n \in DOMAIN dir : Unique(dir[n].items)

\* A submit for a known user_id was accepted while two users are stored.
C10_Witness ==
  /\ AcceptedNow /\ last.found
  /\ primary.kind = "list" /\ Len(primary.items) >= 2
  /\ \E r \in Range(primary.items) : r.user_id = last.user_id

\* C2 (as claimed): a GET that finds the primary file absent, unparseable
\* or holding a value that is no array, while the backups hold a non-empty
\* snapshot, answers with the ranked records of the best local snapshot.
BestBackup == FindBestLocalSnapshot(latest, dir)
C2_ReadRecoversFromBackup ==
  [][(/\ DoGet
      /\ primary.kind \in {"absent", "invalid", "object", "scalar", "wrapped"}
      /\ BestBackup.kind = "list" /\ BestBackup.items # <<>>)
     => resp'.items = RankedView(BestBackup.items)]_vars

\* C4: the ranked view holds exactly the stored records that have a
\* user_id (not empty, not blank) and are no placeholder (score <= 0 with
\* an empty or sentinel name), each as often as it is stored; the ranks
\* are 1..N in order; the scores descend, and equal scores come in
\* ascending updated_at.
Count(seq, x) == Cardinality({i \in 1..Len(seq) : seq[i] = x})
Placeholder(r) == r.score <= 0 /\ r.name \in {"", UnknownName}
C4_RankedView ==
  (resp.op = "get" /\ primary.kind = "list") =>
    LET view == resp.items
        shown == [i \in 1..Len(view) |-> view[i].rec]
    IN /\ \A r \in Range(primary.items) \cup Range(shown) :
            Count(shown, r) =
              IF r.user_id \notin {"", " "} /\ ~Placeholder(r)
              THEN Count(primary.items, r) ELSE 0
       /\ \A i \in 1..Len(view) : view[i].rank = i
       /\ \A i, j \in 1..Len(view) :
            i < j =>
              /\ shown[i].score >= shown[j].score
              /\ shown[i].score = shown[j].score =>
                   ~LexLess(shown[j].updated_at, shown[i].updated_at)

\* Two users with scores 5 and 10 stored in that order: the second one is
\* ranked first.
C4_Witness ==
  /\ resp.op = "get" /\ Len(primary.items) = 2 /\ Len(resp.items) = 2
  /\ primary.items[1].score = 5 /\ primary.items[2].score = 10
  /\ resp.items[1].rec = primary.items[2] /\ resp.items[1].rank = 1
  /\ resp.items[2].rec = primary.items[1] /\ resp.items[2].rank = 2

\* C6: _find_best_local_snapshot returns the collection of latest.json when
\* that file decodes to a non-empty collection; otherwise a collection of
\* the greatest record count among the decodable backup files (the .json
\* files of the directory) whose names start with a recognized prefix;
\* otherwise the empty collection (None counts as empty, as callers take it).
Decode(doc) == IF doc.kind \in {"list", "wrapped"} THEN doc.items ELSE <<>>
AsCollection(v) == IF v.kind = "list" THEN v.items ELSE <<>>
Candidates ==
  { n \in DOMAIN dir :
      /\ n.prefix \in {"backend-live-", "data-live-", "leaderboard-"}
      /\ n.ext = ".json"
      /\ dir[n].kind # "invalid" }
C6_RecoverPriority ==
  last.op = "recover" =>
    IF Decode(latest) # <<>>
    THEN recovered = ListDoc(Decode(latest))
    ELSE IF Candidates # {}
    THEN /\ \E n \in Candidates : AsCollection(recovered) = Decode(dir[n])
         /\ \A n \in Candidates : Len(AsCollection(recovered)) >= Len(Decode(dir[n]))
    ELSE recovered = ListDoc(<<>>)

\* No latest.json; backups of 3, 7 and 5 records in name order: the
\* 7-record one is returned.
C6_Witness ==
  /\ last.op = "recover" /\ latest = Absent
  /\ DOMAIN dir = { FileName("backend-live-", <<1>>, ".json"),
                    FileName("data-live-", <<1>>, ".json"),
                    FileName("leaderboard-", <<0, 0>>, ".json") }
  /\ Len(Decode(dir[FileName("backend-live-", <<1>>, ".json")])) = 3
  /\ Len(Decode(dir[FileName("data-live-", <<1>>, ".json")])) = 7
  /\ Len(Decode(dir[FileName("leaderboard-", <<0, 0>>, ".json")])) = 5
  /\ recovered = ListDoc(Coll(7, "d"))

C8_SyncNeverBlocksResponse == (h.pc = "sync") => ENABLED SendResponse

\* C11: a GET leaves the primary file, latest.json, every other backup
\* file, the manifest and the remote copy as they were and starts no sync;
\* and the GET that follows an accepted submit shows the record of the
\* submitting user_id, also when that record was filtered out before.
C11_GetChangesNothing ==
  [][DoGet =>
       /\ UNCHANGED <<primary, latest, dir, manifest, remote, syncs>>
       /\ (AcceptedNow /\ primary.kind = "list") =>
            \E i \in 1..Len(resp'.items) :
              /\ resp'.items[i].rec.user_id = last.user_id
              /\ resp'.items[i].rec \in Range(primary.items)]_vars

\* The placeholder record of u9 was stored at boot (a GET filters it out);
\* u9 submitted 5 without a name, and the GET now shows the record, still
\* under its sentinel name, while the file holds what the submit wrote.
C11_Witness ==
  /\ resp.op = "get" /\ primary.kind = "list"
  /\ \E i \in 1..Len(resp.items) :
       /\ resp.items[i].rec.user_id = "u9"
       /\ resp.items[i].rec.name = UnknownName
       /\ resp.items[i].rec.score = 5
       /\ resp.items[i].rec \in Range(primary.items)

\* A step in which save_data ran (it always ends with one call of the sync).
SaveStep == syncs' = syncs + 1

C13_SnapshotImmutable ==
  [][\A n \in DOMAIN dir :
       (n.prefix = "leaderboard-" /\ n.ext = ".json") =>
         (n \in DOMAIN dir' /\ dir'[n] = dir[n])]_vars

\* C14: at most one submit is between its load and its answer at any time;
\* a step of the watcher leaves the primary file, the backups and the
\* submits in progress as they are; and after every step the score stored
\* for each user_id is the greatest one any accepted submit has written
\* for it: no submit's update is overwritten by another.
InProgress(t) == {r \in DOMAIN t : t[r].pc \in {"loaded", "saved"}}
C14_NoLostUpdate ==
  [][/\ Cardinality(InProgress(th')) <= 1
     /\ (w' # w) => UNCHANGED <<primary, latest, dir, manifest, mtime, th>>
     /\ \A u \in SubmitUsers :
          \A rec \in RecordsOf(primary'.items, u) : rec.score = submitted'[u]
     /\ \A u \in SubmitUsers :
          submitted'[u] > 0 => RecordsOf(primary'.items, u) # {}]_vars

\* u1's submit was stored while u2's connection waited and the watcher was
\* about to sync; then u2's was stored: both records are in the file.
C14_Witness ==
  /\ th[1].pc = "done" /\ th[2].pc = "saved"
  /\ th[1].user_id = "u1" /\ th[2].user_id = "u2"
  /\ w.pc = "sync"
  /\ submitted["u1"] = 10 /\ submitted["u2"] = 5
  /\ RecordsOf(primary.items, "u1") # {} /\ RecordsOf(primary.items, "u2") # {}

\* C15 (as claimed): an accepted submit that finds the primary file absent
\* or unparseable while the backups hold a non-empty collection leaves, in
\* the primary file and in latest.json, every record of that collection
\* (the submitting user's one updated) and the submitting user's record.
C15_SubmitKeepsRecoverable ==
  [][(/\ AcceptedStep
      /\ primary.kind \in {"absent", "invalid"}
      /\ BestBackup.kind = "list" /\ BestBackup.items # <<>>)
     => /\ \A rec \in Range(BestBackup.items) :
             /\ RecordsOf(primary'.items, rec.user_id) # {}
             /\ RecordsOf(latest'.items, rec.user_id) # {}
        /\ RecordsOf(primary'.items, last'.user_id) # {}
        /\ RecordsOf(latest'.items, last'.user_id) # {}]_vars

\* The candidates of the greatest record count, and the first and the last
\* of them in ascending order of their names.
Greatest ==
  { n \in Candidates :
      \A k \in Candidates : Len(Decode(dir[n])) >= Len(Decode(dir[k])) }
FirstGreatest ==
  CHOOSE n \in Greatest : \A k \in Greatest \ {n} : LexLess(NameKey(n), NameKey(k))
LastGreatest ==
  CHOOSE n \in Greatest : \A k \in Greatest \ {n} : LexLess(NameKey(k), NameKey(n))
ScanTier == last.op = "recover" /\ Decode(latest) = <<>> /\ Candidates # {}

\* C16 (as claimed): when latest.json gives nothing, the scan returns the
\* collection of the last file, in ascending name order, among the
\* candidates of the greatest record count.
C16_LastOfTiesWins ==
  ScanTier => AsCollection(recovered) = Decode(dir[LastGreatest])

\* C16 (amended): it returns the collection of the first such file.
C16_FirstOfTiesWins ==
  ScanTier => AsCollection(recovered) = Decode(dir[FirstGreatest])

\* Two backups of three records each and a smaller one: the collection of
\* the first of the two in name order came back, not that of the second.
C16_Witness ==
  /\ ScanTier
  /\ Cardinality(Greatest) = 2 /\ Cardinality(Candidates) = 3
  /\ Decode(dir[FirstGreatest]) # Decode(dir[LastGreatest])
  /\ Len(Decode(dir[FirstGreatest])) = 3
  /\ recovered = ListDoc(Decode(dir[FirstGreatest]))

\* The connection (in order of arrival) whose submit first wrote the score
\* now stored for a user_id; 0 when no submit of this run wrote it.
Stored(t) == {r \in DOMAIN t : t[r].pc \in {"saved", "done"} /\ t[r].user_id # ""}
ReachedAt(u) ==
  LET R == {r \in Stored(th) : th[r].user_id = u /\ th[r].score = StoredScore(u)}
  IN IF R = {} THEN 0 ELSE CHOOSE r \in R : \A q \in R : r <= q

\* C17 (as claimed): of two records with the same stored score, both
\* written by submits of this run, the one whose user reached the score
\* first stands first in the ranked view.
C17_FirstToReachRanksHigher ==
  LET view == RankedView(GetData(primary, latest, dir))
  IN \A i, j \in 1..Len(view) :
       (/\ i < j
        /\ view[i].rec.score = view[j].rec.score
        /\ ReachedAt(view[i].rec.user_id) > 0
        /\ ReachedAt(view[j].rec.user_id) > 0)
       => ReachedAt(view[i].rec.user_id) < ReachedAt(view[j].rec.user_id)

\* The entries a manifest file holds (none when it is absent or unreadable).
Entries(m) == IF m.kind = "list" THEN m.items ELSE <<>>

\* C18: after an accepted submit whose file operations all succeed,
\* latest.json holds the collection just written to the primary file, the
\* snapshot named after the second of the write holds it too, and the
\* manifest is what it was plus one entry, at its end, with that snapshot's
\* name and the number of records.
C18_BackupsFollowWrite ==
  [][AcceptedStep =>
       LET coll == primary'.items
           name == [prefix |-> "leaderboard-", stamp |-> UtcStamp(now), ext |-> ".json"]
           old == Entries(manifest)
           new == Entries(manifest')
       IN /\ primary'.kind = "list"
          /\ \E rec \in Range(coll) : rec.user_id = last'.user_id
          /\ latest' = Wrapped(coll)
          /\ name \in DOMAIN dir' /\ dir'[name] = Wrapped(coll)
          /\ manifest'.kind = "list"
          /\ Len(new) = Len(old) + 1
          /\ SubSeq(new, 1, Len(old)) = old
          /\ new[Len(new)].file = name
          /\ new[Len(new)].count = Len(coll)
          /\ new[Len(new)].timestamp = UtcStamp(now)]_vars

\* The second save of a run, a day after the first: two snapshots, two
\* manifest entries, the last one counting the three records stored.
C18_Witness ==
  /\ AcceptedNow /\ resp.ok
  /\ Len(primary.items) = 3 /\ latest = Wrapped(primary.items)
  /\ Cardinality(DOMAIN dir) = 2
  /\ Len(Entries(manifest)) = 2
  /\ manifest.items[2].count = 3
  /\ manifest.items[2].file \in DOMAIN dir
  /\ dir[manifest.items[2].file] = Wrapped(primary.items)
  /\ manifest.items[1].file # manifest.items[2].file

\* C19 (as claimed): every step leaves the entries of the manifest in place
\* and adds at most one entry, at the end, also when the save could not read
\* the manifest file.
C19_ManifestAppendOnly ==
  [][LET old == Entries(manifest)
         new == Entries(manifest')
     IN /\ Len(new) \in {Len(old), Len(old) + 1}
        /\ SubSeq(new, 1, Len(old)) = old]_vars

\* The most syncs a run can make: the restore's, one per submit, and one by
\* the watcher after each.
MaxSyncs == 2 * MaxRequests + 2

\* C20 (as claimed): a submit whose sync has run is answered 200 and ok,
\* whether or not the sync failed; and after every failed call of the sync
\* another call follows (by the next save or, without one, by the watcher).
C20_FailedSyncRetried ==
  /\ [][(\E r \in 1..MaxRequests : th[r].pc = "saved" /\ th'[r].pc = "done")
         => (resp'.status = 200 /\ resp'.ok)]_vars
  /\ \A n \in 1..MaxSyncs :
       (syncs = n /\ synced = "failed") ~> (syncs > n)

\* The modification times a run can give the primary file.
MaxMtime == MaxRequests + 2

\* C21: on a pass that finds the file, once the observation is recorded
\* (the first one becomes _last_mtime), the watcher goes on to sync exactly
\* when the file's modification time differs from _last_mtime and from
\* _last_push_mtime, and it syncs for the time it read; a time already pushed is not synced again; when the sync returns,
\* both tracked values are that time; a caught exception is followed by the
\* next pass; and a modification time the watcher has not recorded leads to
\* a watcher sync for it, unless the file changes again or is gone first.
LastSeen == IF w.last_mtime = 0 THEN mtime ELSE w.last_mtime
C21_WatcherSyncsOnChange ==
  /\ [][/\ (WatchPoll /\ primary.kind # "absent") =>
             ((w'.pc = "sync") <=>
                (mtime # LastSeen /\ mtime # w.last_push_mtime))
        /\ (w.pc = "poll" /\ w'.pc = "sync") =>
             (w'.m = mtime /\ mtime # w.last_push_mtime)
        /\ (w.pc = "sync" /\ w'.pc = "poll" /\ w'.errs = w.errs) =>
             (w'.last_mtime = w.m /\ w'.last_push_mtime = w.m)
        /\ (w'.errs # w.errs) => w'.pc = "poll"
        /\ w'.pc \in {"poll", "sync"}]_vars
  /\ \A k \in 1..MaxMtime :
       (mtime = k /\ w.last_mtime \notin {0, k} /\ primary.kind # "absent")
         ~> \/ w.pc = "sync" /\ w.m = k
            \/ w.last_push_mtime = k
            \/ mtime # k
            \/ primary.kind = "absent"

\* The file was deleted under a pending sync, which raised; a later submit
\* wrote it again and the watcher has synced for that write.
C21_Witness ==
  /\ w.errs = 1 /\ w.pc = "poll"
  /\ primary.kind = "list" /\ mtime = 4
  /\ w.last_push_mtime = mtime /\ w.last_mtime = mtime
  /\ remote = primary

====
